---- MODULE Spec2Model ----
(***************************************************************************)
(* firemorph: migration orchestration engine.                              *)
(*                                                                         *)
(* The module models both variants of the engine kept in the repository:  *)
(*   "cli"   - src/src/cli.ts lines 44-203 (dry-run, --only, re-raises)    *)
(*   "index" - src/src/index.ts            (no dry-run/--only, logs+halts) *)
(* Strings that the code takes apart (paths, file names, version tokens)   *)
(* are sequences of one-character strings.                                 *)
(***************************************************************************)
EXTENDS Integers, Sequences, FiniteSets, TLC

(***************************************************************************)
(* Bounds of the model.                                                    *)
(***************************************************************************)
\* files in the migrations directory
MaxFiles == 3
\* tokens in an --only list
MaxSingle == 2
\* calls of migrate against one remote store
MaxCalls == 2

\* semver.coerce's null, and the undefined second element of a split
NoVersion == <<>>
UndefinedName == <<"undefined">>

(***************************************************************************)
(* String helpers (JavaScript String / path semantics on char sequences).  *)
(***************************************************************************)
Digits == <<"0", "1", "2", "3", "4", "5", "6", "7", "8", "9">>

IsDigit(c) == c \in {"0", "1", "2", "3", "4", "5", "6", "7", "8", "9"}

DigitVal(c) == (CHOOSE d \in 1..10 : Digits[d] = c) - 1

\* s.startsWith(d, i) for 1-based i
MatchAt(s, d, i) ==
  /\ i >= 1
  /\ i + Len(d) - 1 <= Len(s)
  /\ SubSeq(s, i, i + Len(d) - 1) = d

\* 1-based index of the first occurrence of d in s at or after i, 0 when
\* there is none
RECURSIVE IndexFrom(_, _, _)
IndexFrom(s, d, i) ==
  IF i + Len(d) - 1 > Len(s) THEN 0
  ELSE IF MatchAt(s, d, i) THEN i
  ELSE IndexFrom(s, d, i + 1)

\* String.prototype.indexOf, 1-based
IndexOf(s, d) == IndexFrom(s, d, 1)

\* String.prototype.includes
Includes(s, d) == IndexOf(s, d) # 0

\* String.prototype.split with a non-empty separator
RECURSIVE Split(_, _)
Split(s, d) ==
  LET i == IndexOf(s, d) IN
  IF i = 0 THEN <<s>>
  ELSE <<SubSeq(s, 1, i - 1)>> \o Split(SubSeq(s, i + Len(d), Len(s)), d)

\* 1-based index of the last "/" of p[1..i], 0 when there is none
RECURSIVE LastSlash(_, _)
LastSlash(p, i) == IF i = 0 \/ p[i] = "/" THEN i ELSE LastSlash(p, i - 1)

\* path.basename: what follows the last "/"
Basename(p) == SubSeq(p, LastSlash(p, Len(p)) + 1, Len(p))

\* path.join(directory, name)
PathJoin(d, n) == d \o <<"/">> \o n

Cwd == <<"/", "w">>

\* path.resolve of a relative path
PathResolve(p) == Cwd \o <<"/">> \o p

\* the glob pattern '*.js': a name that does not start with "." and ends in ".js"
MatchesGlob(n) ==
  /\ Len(n) >= 3
  /\ n[1] # "."
  /\ SubSeq(n, Len(n) - 2, Len(n)) = <<".", "j", "s">>

\* name.replace(/\..*$/, ''): drop everything from the first "."
StripExtension(n) ==
  LET i == IndexOf(n, <<".">>) IN
  IF i = 0 THEN n ELSE SubSeq(n, 1, i - 1)

(***************************************************************************)
(* Version model (semver.coerce, semver.gt).  A version is <<major, minor, *)
(* patch>>; version.version, the normalised string, is one-to-one with it. *)
(***************************************************************************)
\* last index of the run of digits of s that starts at i
RECURSIVE RunEnd(_, _)
RunEnd(s, i) == IF i < Len(s) /\ IsDigit(s[i + 1]) THEN RunEnd(s, i + 1) ELSE i

\* the decimal number s[i..j]
RECURSIVE Num(_, _, _)
Num(s, i, j) == IF j < i THEN 0 ELSE 10 * Num(s, i, j - 1) + DigitVal(s[j])

\* does a "." followed by a digit start at position i
DotNumberAt(s, i) == i + 1 <= Len(s) /\ s[i] = "." /\ IsDigit(s[i + 1])

\* index of the first digit of s at or after i, 0 when there is none
RECURSIVE FirstDigit(_, _)
FirstDigit(s, i) ==
  IF i > Len(s) THEN 0 ELSE IF IsDigit(s[i]) THEN i ELSE FirstDigit(s, i + 1)

\* semver.coerce on tokens whose numbers have no leading zero and at most
\* 16 digits: the first number of the token, with up to two ".number" after it
Coerce(s) ==
  IF FirstDigit(s, 1) = 0 THEN NoVersion
  ELSE
    LET a  == FirstDigit(s, 1)
        ae == RunEnd(s, a)
        hasMinor == DotNumberAt(s, ae + 1)
        be == IF hasMinor THEN RunEnd(s, ae + 2) ELSE ae
        hasPatch == hasMinor /\ DotNumberAt(s, be + 1)
        ce == IF hasPatch THEN RunEnd(s, be + 2) ELSE be
    IN <<Num(s, a, ae),
         IF hasMinor THEN Num(s, ae + 2, be) ELSE 0,
         IF hasPatch THEN Num(s, be + 2, ce) ELSE 0>>

\* a comparison that looks at the major number only
GtMajorOnly(a, b) == a[1] > b[1]

\* semver.gt
Gt(a, b) ==
  \/ a[1] > b[1]
  \/ a[1] = b[1] /\ a[2] > b[2]
  \/ a[1] = b[1] /\ a[2] = b[2] /\ a[3] > b[3]

\* the comparator handed to Array.prototype.sort
Compare(a, b) == IF Gt(a.version, b.version) THEN 1 ELSE -1

\* binary search of the insertion point of x in the sorted prefix arr[1..Len]
RECURSIVE InsertionPoint(_, _, _, _)
InsertionPoint(arr, x, left, right) ==
  IF left >= right THEN left
  ELSE LET mid == left + ((right - left) \div 2) IN
       IF Compare(x, arr[mid + 1]) < 0
       THEN InsertionPoint(arr, x, left, mid)
       ELSE InsertionPoint(arr, x, mid + 1, right)

InsertSorted(arr, x) ==
  LET p == InsertionPoint(arr, x, 0, Len(arr)) IN
  SubSeq(arr, 1, p) \o <<x>> \o SubSeq(arr, p + 1, Len(arr))

\* Array.prototype.sort with Compare (binary insertion, as for short arrays)
RECURSIVE SortFrom(_, _)
SortFrom(done, rest) ==
  IF rest = <<>> THEN done ELSE SortFrom(InsertSorted(done, Head(rest)), Tail(rest))

sortMigrationFiles(arr) == SortFrom(<<>>, arr)

(***************************************************************************)
(* The environment: the files a migrations directory can hold, the tokens  *)
(* an --only list can hold.                                                *)
(***************************************************************************)
\* the characters of the strings of the model: the file names a migrations
\* directory can hold, the --only tokens, the default directory
Chars(str) ==
  CASE str = "1__a.js"     -> <<"1", "_", "_", "a", ".", "j", "s">>
    [] str = "1.0.0__b.js" -> <<"1", ".", "0", ".", "0", "_", "_", "b", ".", "j", "s">>
    [] str = "1.0.1__c.js" -> <<"1", ".", "0", ".", "1", "_", "_", "c", ".", "j", "s">>
    [] str = "1.1__d.js"   -> <<"1", ".", "1", "_", "_", "d", ".", "j", "s">>
    [] str = "v2__e.js"    -> <<"v", "2", "_", "_", "e", ".", "j", "s">>
    [] str = "x__f.js"     -> <<"x", "_", "_", "f", ".", "j", "s">>
    [] str = "3__n.js"     -> <<"3", "_", "_", "n", ".", "j", "s">>
    [] str = "1.0"         -> <<"1", ".", "0">>
    [] str = "2"           -> <<"2">>
    [] str = "x"           -> <<"x">>
    [] str = "__"          -> <<"_", "_">>
    [] str = "migrations"  -> <<"m", "i", "g", "r", "a", "t", "i", "o", "n", "s">>
    [] str = "h.js"        -> <<"h", ".", "j", "s">>
    [] str = "2h.js"       -> <<"2", "h", ".", "j", "s">>
    [] str = "n.md"        -> <<"n", ".", "m", "d">>
    [] str = "my__m"       -> <<"m", "y", "_", "_", "m">>

FileNames ==
  {"1__a.js", "1.0.0__b.js", "1.0.1__c.js", "1.1__d.js", "v2__e.js", "x__f.js", "3__n.js"}

\* modules that export no function named migration
NoMigrationExport == {"3__n.js"}

\* the order in which glob.sync returns these names (it sorts its result)
GlobOrder ==
  <<"1__a.js", "1.0.0__b.js", "1.0.1__c.js", "1.1__d.js", "3__n.js", "v2__e.js", "x__f.js">>

OnlyTokens == {"1.0", "2", "x"}

Delimiter == "__"
Directory == "migrations"

\* sequences over S of length at most n
SeqsUpTo(S, n) == UNION {[1..k -> S] : k \in 0..n}

IsInjective(q) == \A i, j \in 1..Len(q) : q[i] = q[j] => i = j

Range(q) == {q[i] : i \in 1..Len(q)}

\* position of a file name in GlobOrder
Rank(n) == CHOOSE i \in 1..Len(GlobOrder) : GlobOrder[i] = n

\* the directories of at most MaxFiles files, in any enumeration order
Directories == {q \in SeqsUpTo(FileNames, MaxFiles) : IsInjective(q)}

\* the directories as glob.sync enumerates them
SortedDirectories == {q \in Directories : \A i \in 1..(Len(q) - 1) : Rank(q[i]) < Rank(q[i + 1])}

\* a directory that also holds files that are no migrations: two helper
\* modules and a text file, beside two migration files
HelperFileNames == {"1__a.js", "1.1__d.js", "2h.js", "h.js", "n.md"}

HelperGlobOrder == <<"1__a.js", "1.1__d.js", "2h.js", "h.js", "n.md">>

HelperRank(n) == CHOOSE i \in 1..Len(HelperGlobOrder) : HelperGlobOrder[i] = n

\* these directories as glob.sync enumerates them
HelperDirectories ==
  {q \in SeqsUpTo(HelperFileNames, MaxFiles) :
     \A i \in 1..(Len(q) - 1) : HelperRank(q[i]) < HelperRank(q[i + 1])}

\* the directory option of a call: left out, or a path that holds the delimiter
DirectoryOptions == {[ks \in {} |-> ""]} \cup {[directory |-> d] : d \in {"my__m"}}

(***************************************************************************)
(* State.                                                                  *)
(***************************************************************************)
VARIABLES
  variant,     \* "cli" or "index": which engine this process runs
  fsys,        \* the names in the migrations directory, in enumeration order
  store,       \* the documents of the migrations collection
  clock,       \* Timestamp.now()
  calls,       \* calls of migrate so far
  defaults,    \* the module-level defaults object
  single,      \* options.single of the current call of migrate
  pc,          \* position of the current call of migrate
  outcome,     \* how the last call ended
  loads,       \* the promises handed to Promise.all in gather
  failure,     \* the error the call failed with
  found,       \* what gather returned to migrate
  migrations,  \* the list runMigrations iterates
  idx,         \* position of the for-of loop
  error,       \* the local flag of the loop body
  result,      \* the MigrationResult built in the finally block
  store0,      \* the store when the current call started
  invoked,     \* the procedures invoked in the current call, in order
  reads,       \* the remote reads of the current call, in order
  writes,      \* the remote writes of the current call, in order
  peer         \* a run of another process against the same remote store

vars == <<variant, fsys, store, clock, calls, defaults, single, pc, outcome, loads, failure,
          found, migrations, idx, error, result, store0, invoked, reads, writes, peer>>

envVars == <<variant, fsys>>
runVars == <<loads, found, migrations, idx, error, result>>
logVars == <<store0, invoked, reads, writes>>

Successful == "successful"
Failed == "failed"

\* const defaults: Options
InitialDefaults ==
  [directory |-> Directory, delimiter |-> Delimiter, ignoreRemote |-> FALSE, dryRun |-> FALSE]

NoSingle == [given |-> FALSE, tokens |-> <<>>]
NoResult == [version |-> NoVersion, executed |-> 0, status |-> "none"]

\* no other process runs against the store
NoPeer == [pc |-> "off", idx |-> 0, error |-> FALSE, result |-> NoResult, invoked |-> <<>>]

\* a fresh process and an empty migrations collection
InitProcess ==
  /\ variant \in {"cli", "index"}
  /\ store = {}
  /\ clock = 0
  /\ calls = 0
  /\ defaults = InitialDefaults
  /\ single = NoSingle
  /\ pc = "idle"
  /\ outcome = "none"
  /\ loads = <<>>
  /\ failure = "none"
  /\ found = <<>>
  /\ migrations = <<>>
  /\ idx = 0
  /\ error = FALSE
  /\ result = NoResult
  /\ store0 = {}
  /\ invoked = <<>>
  /\ reads = <<>>
  /\ writes = <<>>
  /\ peer = NoPeer

Init == fsys \in SortedDirectories /\ InitProcess

\* discovery is also checked for enumeration orders glob.sync does not produce
InitAnyOrder == fsys \in Directories /\ InitProcess

\* a directory with helper files beside the migrations
InitHelpers == fsys \in HelperDirectories /\ InitProcess

(***************************************************************************)
(* migrate: options, discovery.                                            *)
(***************************************************************************)
\* the Partial<Options> a caller of this variant can pass (index.ts has no
\* dryRun; an option passed as undefined reads as false everywhere)
CallOptions(v) ==
  UNION {[ks -> BOOLEAN] :
           ks \in SUBSET (IF v = "cli" THEN {"ignoreRemote", "dryRun"} ELSE {"ignoreRemote"})}

\* the values of options.single a caller of this variant can pass
CallSingles(v) ==
  IF v = "cli"
  THEN {NoSingle} \cup {[given |-> TRUE, tokens |-> t] : t \in SeqsUpTo(OnlyTokens, MaxSingle)}
  ELSE {NoSingle}

\* Object.assign(defaults, options), on the keys the engine reads
Assign(target, o) ==
  [k \in DOMAIN target |-> IF k \in DOMAIN o THEN o[k] ELSE target[k]]

\* glob.sync(path.join(directory, '*.js')) over a directory that enumerates
\* as entries: the names it matches
GlobSync(entries, dir) == SelectSeq(entries, LAMBDA n : MatchesGlob(Chars(n)))

\* .filter((f) => f.includes(options.delimiter)): the names whose path is kept
GatherFiles(entries, dir, delimiter) ==
  SelectSeq(GlobSync(entries, dir),
            LAMBDA n : Includes(PathJoin(Chars(dir), Chars(n)), Chars(delimiter)))

\* a duplicate check that never fires
IsDuplicateNever(version, versions) == FALSE

\* versions.includes(version.version)
IsDuplicate(version, versions) == version \in versions

\* the part of each files.map callback that runs before its first await, in
\* the order of the array: split, coerce, the duplicate check, versions.push
RECURSIVE StartLoads(_, _, _, _)
StartLoads(files, dir, delimiter, versions) ==
  IF files = <<>> THEN <<>>
  ELSE
    LET f == PathResolve(PathJoin(Chars(dir), Chars(Head(files))))
        parts == Split(Basename(f), Chars(delimiter))
        name == IF Len(parts) >= 2 THEN parts[2] ELSE UndefinedName
        version == Coerce(parts[1])
        load == [file |-> Head(files), version |-> version, name |-> name]
    IN
    IF version = NoVersion
    THEN <<load @@ [state |-> "rejected", error |-> "InvalidVersion"]>>
           \o StartLoads(Tail(files), dir, delimiter, versions)
    ELSE IF IsDuplicate(version, versions)
    THEN <<load @@ [state |-> "rejected", error |-> "DuplicateVersion"]>>
           \o StartLoads(Tail(files), dir, delimiter, versions)
    ELSE <<load @@ [state |-> "loading", error |-> "none"]>>
           \o StartLoads(Tail(files), dir, delimiter, versions \cup {version})

\* the rejection Promise.all settles with: the first one in array order
\* among the promises already rejected
FirstRejection(ls) ==
  IF \E i \in 1..Len(ls) : ls[i].state = "rejected"
  THEN ls[CHOOSE i \in 1..Len(ls) :
            /\ ls[i].state = "rejected"
            /\ \A j \in 1..(i - 1) : ls[j].state # "rejected"].error
  ELSE "none"

\* a load that takes every module as a migration
FinishLoadUnchecked(load) ==
  [load EXCEPT !.state = "fulfilled", !.name = StripExtension(load.name)]

\* what a call does after await import(f): the typeof check, the descriptor
FinishLoad(load) ==
  IF load.file \in NoMigrationExport
  THEN [load EXCEPT !.state = "rejected", !.error = "MissingProcedure"]
  ELSE IF load.name = UndefinedName
  THEN [load EXCEPT !.state = "rejected", !.error = "TypeError"]
  ELSE [load EXCEPT !.state = "fulfilled", !.name = StripExtension(load.name)]

\* gather up to its first suspension: every callback of files.map has run to
\* its await import(f), or has thrown
GatherStart(entries, dir, delimiter) ==
  StartLoads(GatherFiles(entries, dir, delimiter), dir, delimiter, {})

\* GatherStart under the default directory and delimiter, tabulated
DefaultGatherStart ==
  [entries \in Directories |-> GatherStart(entries, Directory, Delimiter)] @@ <<>>

\* migrate(options) up to the first suspension of gather
Migrate(o, s) ==
  /\ pc \in {"idle", "done"}
  /\ outcome # "exit"
  /\ calls < MaxCalls
  /\ calls' = calls + 1
  /\ LET merged == Assign(defaults, o)
         started == IF /\ merged.directory = Directory /\ merged.delimiter = Delimiter
                       /\ fsys \in DOMAIN DefaultGatherStart
                    THEN DefaultGatherStart[fsys]
                    ELSE GatherStart(fsys, merged.directory, merged.delimiter)
     IN /\ defaults' = merged
        /\ single' = s
        /\ loads' = started
        /\ failure' = FirstRejection(started)
  /\ pc' = "gather"
  /\ outcome' = "none"
  /\ found' = <<>>
  /\ migrations' = <<>>
  /\ idx' = 0
  /\ error' = FALSE
  /\ result' = NoResult
  /\ store0' = store
  /\ invoked' = <<>>
  /\ reads' = <<>>
  /\ writes' = <<>>
  /\ UNCHANGED <<envVars, peer, store, clock>>

\* one import(f) completes
ImportDone(i) ==
  /\ pc = "gather"
  /\ i \in 1..Len(loads)
  /\ loads[i].state = "loading"
  /\ LET done == FinishLoad(loads[i]) IN
       /\ loads' = [loads EXCEPT ![i] = done]
       /\ failure' = IF failure = "none" /\ done.state = "rejected" THEN done.error ELSE failure
  /\ UNCHANGED <<envVars, peer, store, clock, calls, defaults, single, pc, outcome, found, migrations,
                 idx, error, result, logVars>>

\* the descriptors Promise.all resolves with, in the order of files
Contents(ls) ==
  [i \in 1..Len(ls) |-> [version |-> ls[i].version, name |-> ls[i].name, fn |-> ls[i].file]]

\* migrations.find((m) => m.version === v)
Find(ms, v) == ms[CHOOSE i \in 1..Len(ms) : ms[i].version = v /\ \A j \in 1..(i - 1) : ms[j].version # v]

\* a selection that drops the tokens no descriptor matches
SelectKnown(ms, s) ==
  IF ~s.given THEN [error |-> "none", list |-> ms]
  ELSE
    LET singleVersions == [i \in 1..Len(s.tokens) |-> Coerce(Chars(s.tokens[i]))]
        known == SelectSeq(singleVersions,
                           LAMBDA v : \E j \in 1..Len(ms) : ms[j].version = v)
    IN
    IF \E i \in 1..Len(singleVersions) : singleVersions[i] = NoVersion
    THEN [error |-> "InvalidOnlyVersion", list |-> <<>>]
    ELSE [error |-> "none",
          list |-> sortMigrationFiles([i \in 1..Len(known) |-> Find(ms, known[i])])]

\* the if (options?.single) block of migrate: the error it throws, or the list
\* it hands to runMigrations
Select(ms, s) ==
  IF ~s.given THEN [error |-> "none", list |-> ms]
  ELSE
    LET singleVersions == [i \in 1..Len(s.tokens) |-> Coerce(Chars(s.tokens[i]))] IN
    IF \E i \in 1..Len(singleVersions) : singleVersions[i] = NoVersion
    THEN [error |-> "InvalidOnlyVersion", list |-> <<>>]
    ELSE IF \E i \in 1..Len(singleVersions) :
              \A j \in 1..Len(ms) : ms[j].version # singleVersions[i]
    THEN [error |-> "UnknownVersion", list |-> <<>>]
    ELSE [error |-> "none",
          list |-> sortMigrationFiles([i \in 1..Len(singleVersions) |-> Find(ms, singleVersions[i])])]

\* an error that is swallowed: the call ends normally
ThrownSwallowed(v) == "ok"

\* how an error thrown inside migrate ends the call: cli.ts catches it and
\* calls process.exit(1), index.ts lets the promise reject
Thrown(v) == IF v = "cli" THEN "exit" ELSE "rejected"

\* Promise.all settles: gather throws, or returns the sorted descriptors;
\* migrate selects and enters runMigrations up to its first remote read
GatherJoin ==
  /\ pc = "gather"
  /\ \/ /\ failure # "none"
        /\ pc' = "done"
        /\ outcome' = Thrown(variant)
        /\ UNCHANGED <<failure, found, migrations, idx>>
     \/ /\ failure = "none"
        /\ \A i \in 1..Len(loads) : loads[i].state = "fulfilled"
        /\ LET sorted == sortMigrationFiles(Contents(loads))
               sel == Select(sorted, single)
           IN /\ found' = sorted
              /\ migrations' = sel.list
              /\ failure' = sel.error
              /\ IF sel.error # "none"
                 THEN pc' = "done" /\ outcome' = Thrown(variant) /\ idx' = idx
                 ELSE IF sel.list = <<>>
                 THEN pc' = "done" /\ outcome' = "ok" /\ idx' = idx
                 ELSE pc' = "read" /\ outcome' = outcome /\ idx' = 1
  /\ UNCHANGED <<envVars, peer, store, clock, calls, defaults, single, loads, error, result, logVars>>

(***************************************************************************)
(* runMigrations.                                                          *)
(***************************************************************************)
\* an id that does not depend on the version
getIdConstant(m) == <<"sha256", <<>>>>

\* getIdFromMigration: the SHA-256 digest of the version string, taken as
\* one-to-one
getIdFromMigration(m) == <<"sha256", m.version>>

\* a read that never finds a document
DocGetNothing(docs, id) == {}

\* MigrationCollection.doc(id).get(): the documents stored under id
DocGet(docs, id) == {d \in docs : d.id = id}

\* a write that adds a document and keeps the one already stored
DocAdd(docs, id, data) == docs \cup {[id |-> id, data |-> data]}

\* remoteDoc.ref.set(result): the document under id is replaced
DocSet(docs, id, data) == {d \in docs : d.id # id} \cup {[id |-> id, data |-> data]}

\* the loop moves to its next element, or runMigrations returns
Continue ==
  IF idx < Len(migrations)
  THEN idx' = idx + 1 /\ pc' = "read" /\ UNCHANGED <<outcome, failure>>
  ELSE idx' = idx /\ pc' = "done" /\ outcome' = "ok" /\ UNCHANGED failure

\* an "Already run" test that never skips
AlreadyRunNever(o, seen) == FALSE

\* an "Already run" test that skips on any stored result, failed ones too
AlreadyRunAnyRecord(o, seen) == ~o.ignoreRemote /\ seen # "absent"

\* the "Already run" test: not forcing, and a stored result that succeeded
AlreadyRun(o, seen) == ~o.ignoreRemote /\ seen = Successful

\* a dry-run test that never stops the run
DryRunStopsNever(v, o) == FALSE

\* a dry-run test that does not stop a forced run
DryRunStopsUnforced(v, o) == v = "cli" /\ o.dryRun /\ ~o.ignoreRemote

\* the dry-run test: index.ts has none
DryRunStops(v, o) == v = "cli" /\ o.dryRun

\* the remote read of the current migration completes: skip, stop for the
\* dry run, or invoke the procedure
ReadDone ==
  /\ pc = "read"
  /\ LET m == migrations[idx]
         remote == DocGet(store, getIdFromMigration(m))
         seen == IF remote = {} THEN "absent" ELSE (CHOOSE d \in remote : TRUE).data.status
     IN /\ reads' = Append(reads, [pos |-> idx, version |-> m.version, status |-> seen])
        /\ IF AlreadyRun(defaults, seen)
           THEN Continue /\ UNCHANGED invoked
           ELSE IF DryRunStops(variant, defaults)
           THEN /\ pc' = "done"
                /\ outcome' = "ok"
                /\ UNCHANGED <<idx, failure, invoked>>
           ELSE /\ pc' = "fn"
                /\ invoked' = Append(invoked, [pos |-> idx, version |-> m.version])
                /\ UNCHANGED <<idx, outcome, failure>>
  /\ UNCHANGED <<envVars, peer, store, clock, calls, defaults, single, loads, found, migrations, error,
                 result, store0, writes>>

\* a loop that does not wait for the write of the result: once the procedure
\* settles it moves on to the next migration
FnSettleDetached(rejected) ==
  /\ pc = "fn"
  /\ error' = rejected
  /\ clock' = clock + 1
  /\ result' = [version |-> migrations[idx].version,
                executed |-> clock + 1,
                status |-> IF rejected THEN Failed ELSE Successful]
  /\ Continue
  /\ UNCHANGED <<envVars, peer, store, calls, defaults, single, loads, found, migrations, logVars>>

\* the procedure settles; the finally block builds the result record
FnSettle(rejected) ==
  /\ pc = "fn"
  /\ error' = rejected
  /\ clock' = clock + 1
  /\ result' = [version |-> migrations[idx].version,
                executed |-> clock + 1,
                status |-> IF rejected THEN Failed ELSE Successful]
  /\ pc' = "write"
  /\ UNCHANGED <<envVars, peer, store, calls, defaults, single, outcome, loads, failure, found, migrations,
                 idx, logVars>>

\* a loop that goes on after a failure
MustHaltNever(err) == FALSE

\* the break of the catch block and the if (error) of the finally block: the
\* loop is left once the result is written
MustHalt(err) == err

\* how the loop ends after a failed record is written: cli.ts throws (and
\* migrate exits the process), index.ts breaks and returns normally
Halt(v) == IF v = "cli" THEN "exit" ELSE "ok"

\* remoteDoc.ref.set(result) completes
WriteDone ==
  /\ pc = "write"
  /\ store' = DocSet(store, getIdFromMigration(migrations[idx]), result)
  /\ writes' = Append(writes, [pos |-> idx, data |-> result])
  /\ IF MustHalt(error)
     THEN /\ pc' = "done"
          /\ outcome' = Halt(variant)
          /\ failure' = IF variant = "cli" THEN "MigrationFailed" ELSE failure
          /\ idx' = idx
     ELSE Continue
  /\ error' = FALSE
  /\ result' = NoResult
  /\ UNCHANGED <<envVars, peer, clock, calls, defaults, single, loads, found, migrations, store0, invoked,
                 reads>>

\* the process ended; a new one starts, the remote store stays
Restart ==
  /\ pc = "done"
  /\ pc' = "idle"
  /\ outcome' = "none"
  /\ defaults' = InitialDefaults
  /\ single' = NoSingle
  /\ loads' = <<>>
  /\ failure' = "none"
  /\ found' = <<>>
  /\ migrations' = <<>>
  /\ idx' = 0
  /\ invoked' = <<>>
  /\ reads' = <<>>
  /\ writes' = <<>>
  /\ store0' = store
  /\ UNCHANGED <<envVars, peer, store, clock, calls, error, result>>

\* every process calls migrate once, as the command line does
Next ==
  \/ \E o \in CallOptions(variant), s \in CallSingles(variant) : pc = "idle" /\ Migrate(o, s)
  \/ \E i \in 1..MaxFiles : ImportDone(i)
  \/ GatherJoin
  \/ ReadDone
  \/ \E rejected \in BOOLEAN : FnSettle(rejected)
  \/ WriteDone
  \/ Restart

Spec == Init /\ [][Next]_vars

\* one call of migrate without --only, over every enumeration order
NextDiscovery ==
  \/ \E o \in CallOptions(variant) : pc = "idle" /\ Migrate(o, NoSingle)
  \/ \E i \in 1..MaxFiles : ImportDone(i)
  \/ GatherJoin
  \/ ReadDone
  \/ \E rejected \in BOOLEAN : FnSettle(rejected)
  \/ WriteDone

SpecDiscovery == InitAnyOrder /\ [][NextDiscovery]_vars

\* MigrationCollection.doc(id).get() rejects: the error leaves runMigrations
ReadFail ==
  /\ pc = "read"
  /\ pc' = "done"
  /\ outcome' = Thrown(variant)
  /\ failure' = "StoreError"
  /\ UNCHANGED <<envVars, peer, store, clock, calls, defaults, single, loads, found, migrations,
                 idx, error, result, logVars>>

\* remoteDoc.ref.set(result) rejects inside the finally block: the error
\* replaces the pending break and leaves runMigrations
WriteFail ==
  /\ pc = "write"
  /\ pc' = "done"
  /\ outcome' = Thrown(variant)
  /\ failure' = "StoreError"
  /\ UNCHANGED <<envVars, peer, store, clock, calls, defaults, single, loads, found, migrations,
                 idx, error, result, logVars>>

\* calls of migrate without --only against a store whose reads and writes
\* can fail
NextStoreFailure ==
  \/ \E o \in CallOptions(variant) : pc = "idle" /\ Migrate(o, NoSingle)
  \/ \E i \in 1..MaxFiles : ImportDone(i)
  \/ GatherJoin
  \/ ReadDone
  \/ ReadFail
  \/ \E rejected \in BOOLEAN : FnSettle(rejected)
  \/ WriteDone
  \/ WriteFail
  \/ Restart

SpecStoreFailure == Init /\ [][NextStoreFailure]_vars

(***************************************************************************)
(* runMigrations of a second process that runs against the same remote     *)
(* store, with ignoreRemote=false and dryRun=false, over the same          *)
(* directory (so its gather returns the same list).                        *)
(***************************************************************************)
\* gather of the first process has returned its list
GatherReturnedList == pc \in {"read", "fn", "write", "done"} /\ failure \in {"none", "MigrationFailed"}

mainVars == <<variant, fsys, calls, defaults, single, pc, outcome, loads, failure, found,
              migrations, idx, error, result, store0, invoked, reads, writes>>

\* migrate() with no option
NoOptions == [k \in {} |-> FALSE]

\* the second process enters runMigrations with the list gather returns
PeerStart ==
  /\ peer.pc = "off"
  /\ GatherReturnedList
  /\ found # <<>>
  /\ peer' = [peer EXCEPT !.pc = "read", !.idx = 1]
  /\ UNCHANGED <<mainVars, store, clock>>

\* its loop moves to its next element, or its runMigrations returns
PeerContinue(p) ==
  IF p.idx < Len(found)
  THEN [p EXCEPT !.idx = p.idx + 1, !.pc = "read"]
  ELSE [p EXCEPT !.pc = "done"]

\* its remote read completes: skip, or invoke the procedure
PeerReadDone ==
  /\ peer.pc = "read"
  /\ LET m == found[peer.idx]
         remote == DocGet(store, getIdFromMigration(m))
         seen == IF remote = {} THEN "absent" ELSE (CHOOSE d \in remote : TRUE).data.status
     IN peer' = IF AlreadyRun(InitialDefaults, seen)
                THEN PeerContinue(peer)
                ELSE [peer EXCEPT !.pc = "fn",
                                  !.invoked = Append(@, [pos |-> peer.idx, version |-> m.version])]
  /\ UNCHANGED <<mainVars, store, clock>>

\* its procedure settles
PeerFnSettle(rejected) ==
  /\ peer.pc = "fn"
  /\ clock' = clock + 1
  /\ peer' = [peer EXCEPT !.pc = "write",
                          !.error = rejected,
                          !.result = [version |-> found[peer.idx].version,
                                      executed |-> clock + 1,
                                      status |-> IF rejected THEN Failed ELSE Successful]]
  /\ UNCHANGED <<mainVars, store>>

\* its write of the result completes
PeerWriteDone ==
  /\ peer.pc = "write"
  /\ store' = DocSet(store, getIdFromMigration(found[peer.idx]), peer.result)
  /\ peer' = IF MustHalt(peer.error)
             THEN [peer EXCEPT !.pc = "done", !.error = FALSE, !.result = NoResult]
             ELSE [PeerContinue(peer) EXCEPT !.error = FALSE, !.result = NoResult]
  /\ UNCHANGED <<mainVars, clock>>

\* two processes, each calling migrate() once with no option
NextOverlap ==
  \/ pc = "idle" /\ Migrate(NoOptions, NoSingle)
  \/ \E i \in 1..MaxFiles : ImportDone(i)
  \/ GatherJoin
  \/ ReadDone
  \/ \E rejected \in BOOLEAN : FnSettle(rejected)
  \/ WriteDone
  \/ PeerStart
  \/ PeerReadDone
  \/ \E rejected \in BOOLEAN : PeerFnSettle(rejected)
  \/ PeerWriteDone

SpecOverlap == Init /\ [][NextOverlap]_vars

\* one process that calls migrate again after a call has returned
NextProcess ==
  \/ \E o \in CallOptions(variant), s \in CallSingles(variant) : Migrate(o, s)
  \/ \E i \in 1..MaxFiles : ImportDone(i)
  \/ GatherJoin
  \/ ReadDone
  \/ \E rejected \in BOOLEAN : FnSettle(rejected)
  \/ WriteDone

SpecProcess == Init /\ [][NextProcess]_vars

\* one call of migrate on a directory with helper files, with the default
\* directory path or one that holds the delimiter
NextHelpers ==
  \/ \E o \in DirectoryOptions : pc = "idle" /\ Migrate(o, NoSingle)
  \/ \E i \in 1..MaxFiles : ImportDone(i)
  \/ GatherJoin
  \/ ReadDone
  \/ \E rejected \in BOOLEAN : FnSettle(rejected)
  \/ WriteDone

SpecHelpers == InitHelpers /\ [][NextHelpers]_vars

(***************************************************************************)
(* Vocabulary of the properties.                                           *)
(***************************************************************************)
\* the semantic-version order: major, then minor, then patch
VersionLess(a, b) ==
  \/ a[1] < b[1]
  \/ a[1] = b[1] /\ a[2] < b[2]
  \/ a[1] = b[1] /\ a[2] = b[2] /\ a[3] < b[3]

\* the status of the records stored for version v: "absent", one status, or
\* "several" when more than one record is stored
StatusOf(docs, v) ==
  LET found_ == {d \in docs : d.data.version = v} IN
  IF found_ = {} THEN "absent"
  ELSE IF Cardinality(found_) = 1 THEN (CHOOSE d \in found_ : TRUE).data.status
  ELSE "several"

Positions(log) == {log[i].pos : i \in 1..Len(log)}

\* the call of migrate has ended
Ended == pc = "done"

\* the call ended in an error: the process exited with code 1, or the promise
\* of migrate rejected
EndedInError == pc = "done" /\ outcome \in {"exit", "rejected"}

\* no version occurs twice in the list handed to runMigrations
NoRepeat(ms) == \A i, j \in 1..Len(ms) : ms[i].version = ms[j].version => i = j

\* position k is where a procedure of this call rejected
RejectedAt(k) == \E i \in 1..Len(writes) : writes[i].pos = k /\ writes[i].data.status = Failed

(***************************************************************************)
(* C1  Halt on first failure.  When a call with dryRun=false has ended and *)
(* position k of its list is where a procedure rejected: every position    *)
(* before k was skipped on a successful record or invoked and recorded     *)
(* successful, position k was recorded failed, and no position after k was *)
(* read, invoked or written; in a list that names no version twice, the    *)
(* store then holds a successful record for every version before k and a   *)
(* failed record for version k.                                            *)
(***************************************************************************)
C1_HaltOnFirstFailure ==
  Ended =>
    \A k \in 1..Len(migrations) :
      RejectedAt(k) =>
        /\ \A i \in 1..(k - 1) :
             \/ \E r \in 1..Len(reads) : reads[r].pos = i /\ reads[r].status = Successful
             \/ \E w \in 1..Len(writes) : writes[w].pos = i /\ writes[w].data.status = Successful
        /\ \A i \in (k + 1)..Len(migrations) :
             i \notin Positions(reads) \cup Positions(invoked) \cup Positions(writes)
        /\ NoRepeat(migrations) =>
             /\ \A i \in 1..(k - 1) : StatusOf(store, migrations[i].version) = Successful
             /\ StatusOf(store, migrations[k].version) = Failed

\* three pending migrations, the second rejected
C1_Witness ==
  /\ Ended
  /\ Len(migrations) = 3
  /\ NoRepeat(migrations)
  /\ store0 = {}
  /\ RejectedAt(2)

(***************************************************************************)
(* C2  Skip of already-successful migrations.  A migration read with a     *)
(* successful record while ignoreRemote is false is not invoked at that    *)
(* position nor at any later position of the call, and the loop has moved  *)
(* on to the next position (or, after the last one, the call has ended     *)
(* normally); with or without a selection.                                 *)
(***************************************************************************)
C2_SkipSuccessful ==
  \A r \in 1..Len(reads) :
    (~defaults.ignoreRemote /\ reads[r].status = Successful) =>
      /\ \A i \in 1..Len(invoked) :
           ~(invoked[i].pos >= reads[r].pos /\ invoked[i].version = reads[r].version)
      /\ \/ idx > reads[r].pos
         \/ reads[r].pos = Len(migrations) /\ pc = "done" /\ outcome = "ok"

\* under a selection, a successful migration was skipped and the next one run
C2_Witness ==
  /\ single.given
  /\ ~defaults.ignoreRemote
  /\ \E r \in 1..Len(reads) :
       /\ reads[r].status = Successful
       /\ \E i \in 1..Len(invoked) : invoked[i].pos = reads[r].pos + 1

\* the last result written for version v in this call
LastWritten(v) ==
  writes[CHOOSE i \in 1..Len(writes) :
           /\ writes[i].data.version = v
           /\ \A j \in (i + 1)..Len(writes) : writes[j].data.version # v].data

(***************************************************************************)
(* C3  Forced rerun.  With ignoreRemote=true and dryRun=false a migration  *)
(* read with a successful record is invoked again, and once its result is  *)
(* written the store holds exactly one record for its version: the one of  *)
(* the last attempt, with that attempt's status and a timestamp newer than *)
(* every record the store held when the call started.                      *)
(***************************************************************************)
C3_ForcedRerun ==
  \A r \in 1..Len(reads) :
    (defaults.ignoreRemote /\ ~defaults.dryRun /\ reads[r].status = Successful) =>
      /\ reads[r].pos \in Positions(invoked)
      /\ reads[r].pos \in Positions(writes) =>
           LET v == reads[r].version IN
           /\ {d \in store : d.data.version = v} =
                {[id |-> getIdFromMigration([version |-> v]), data |-> LastWritten(v)]}
           /\ \A d \in store0 : d.data.executed < LastWritten(v).executed

\* a successful record of an earlier call was replaced by a failed attempt
C3_Witness ==
  /\ defaults.ignoreRemote
  /\ \E r \in 1..Len(reads) :
       /\ reads[r].status = Successful
       /\ reads[r].pos \in Positions(writes)
       /\ StatusOf(store0, reads[r].version) = Successful
       /\ StatusOf(store, reads[r].version) = Failed

(***************************************************************************)
(* C4  Dry run is side-effect free.  In a call with dryRun=true no         *)
(* procedure is invoked, no record is written, and the store stays what it *)
(* was when the call started; for every store, ignoreRemote and selection. *)
(***************************************************************************)
C4_DryRunNoEffect ==
  defaults.dryRun => invoked = <<>> /\ writes = <<>> /\ store = store0

\* a forced, selected dry run over a non-empty store stopped at a migration
C4_Witness ==
  /\ Ended
  /\ defaults.dryRun
  /\ defaults.ignoreRemote
  /\ single.given
  /\ store0 # {}
  /\ reads # <<>>
  /\ outcome = "ok"

(***************************************************************************)
(* C5  A failed migration terminates the invocation with an error.  When a *)
(* call in which a procedure rejected has ended, it ended in an error, and *)
(* the failed record was written before.                                   *)
(***************************************************************************)
C5_FailureIsError ==
  (Ended /\ \E i \in 1..Len(invoked) : RejectedAt(invoked[i].pos)) =>
    /\ EndedInError
    /\ StatusOf(store, writes[Len(writes)].data.version) = Failed

\* the errors gather throws
DiscoveryErrors == {"InvalidVersion", "DuplicateVersion", "MissingProcedure", "TypeError"}

\* gather has returned its list to migrate
GatherReturned == pc \in {"read", "fn", "write", "done"} /\ failure \notin DiscoveryErrors

(***************************************************************************)
(* C6  Discovery order.  Whenever gather returns, for every enumeration    *)
(* order of the directory, its list is strictly ascending by semantic      *)
(* version and is a permutation of the descriptors of the discovered       *)
(* files.                                                                  *)
(***************************************************************************)
C6_DiscoveryOrder ==
  GatherReturned =>
    /\ \A i \in 1..(Len(found) - 1) : VersionLess(found[i].version, found[i + 1].version)
    /\ Len(found) = Len(fsys)
    /\ {found[i].fn : i \in 1..Len(found)} = Range(fsys)
    /\ Range(found) = Range(Contents(loads))

\* three files enumerated in descending version order, the last two apart
\* only in the patch
C6_Witness ==
  /\ GatherReturned
  /\ Len(found) = 3
  /\ found[1].fn = fsys[3]
  /\ found[2].fn = fsys[2]
  /\ found[3].fn = fsys[1]
  /\ found[1].version[2] = found[2].version[2]
  /\ found[2].version[2] < found[3].version[2]

(***************************************************************************)
(* C7  Duplicate versions are rejected eagerly.                            *)
(***************************************************************************)
\* the normalised version of a file name, NoVersion when it has none
Normalized(n) == Coerce(Split(Chars(n), Chars(Delimiter))[1])

\* the directory holds two files that normalise to the same version
HasDuplicate ==
  \E i, j \in 1..Len(fsys) :
    i < j /\ Normalized(fsys[i]) # NoVersion /\ Normalized(fsys[i]) = Normalized(fsys[j])

\* the first position of the enumeration that repeats an earlier version
SecondOfDuplicate ==
  CHOOSE j \in 1..Len(fsys) :
    /\ \E i \in 1..(j - 1) : Normalized(fsys[i]) # NoVersion /\ Normalized(fsys[i]) = Normalized(fsys[j])
    /\ \A k \in 1..(j - 1) :
         ~\E i \in 1..(k - 1) : Normalized(fsys[i]) # NoVersion /\ Normalized(fsys[i]) = Normalized(fsys[k])

C8_SelectionOrder ==
  single.given =>
    \A i, j \in 1..Len(invoked) :
      i < j => VersionLess(invoked[i].version, invoked[j].version)

(***************************************************************************)
(* C9  Unknown selection.                                                  *)
(***************************************************************************)
\* the normalised version of an --only token
TokenVersion(t) == Coerce(Chars(t))

\* a token of the selection normalises to a version gather did not return
UnknownSelected ==
  /\ single.given
  /\ \E i \in 1..Len(single.tokens) :
       /\ TokenVersion(single.tokens[i]) # NoVersion
       /\ \A j \in 1..Len(found) : found[j].version # TokenVersion(single.tokens[i])

\* C9 as stated: when a token of the selection normalises to a version no
\* discovered descriptor has, the call fails with the unknown-version error,
\* invokes no procedure and writes no record.
C9_UnknownSelection ==
  (GatherReturned /\ UnknownSelected) =>
    /\ EndedInError
    /\ failure = "UnknownVersion"
    /\ invoked = <<>> /\ writes = <<>> /\ store = store0

\* C9 as amended: ... the call fails, with the unknown-version error when
\* every token of the list can be parsed and with the invalid-version error
\* when one cannot, invokes no procedure and writes no record.
C9_UnknownSelectionAmended ==
  (GatherReturned /\ UnknownSelected) =>
    /\ EndedInError
    /\ failure = IF \E i \in 1..Len(single.tokens) : TokenVersion(single.tokens[i]) = NoVersion
                 THEN "InvalidOnlyVersion"
                 ELSE "UnknownVersion"
    /\ invoked = <<>> /\ writes = <<>> /\ store = store0

\* one token matches a pending migration, the other matches none
C9_Witness ==
  /\ GatherReturned
  /\ UnknownSelected
  /\ failure = "UnknownVersion"
  /\ \E i \in 1..Len(single.tokens), j \in 1..Len(found) :
       /\ found[j].version = TokenVersion(single.tokens[i])
       /\ StatusOf(store, found[j].version) = Failed

(***************************************************************************)
(* C10  Writes only on commit.  Every record written in a call is the      *)
(* result of a procedure invoked at that position of the call, and a       *)
(* version whose procedure was not invoked in the call (skipped, not       *)
(* reached, or outside the list) has the records it had when the call      *)
(* started.                                                                *)
(***************************************************************************)
C10_WritesOnlyOnCommit ==
  /\ \A w \in 1..Len(writes) :
       \E i \in 1..Len(invoked) :
         invoked[i].pos = writes[w].pos /\ invoked[i].version = writes[w].data.version
  /\ \A d \in (store \ store0) \cup (store0 \ store) :
       \E i \in 1..Len(invoked) : invoked[i].version = d.data.version

\* a call that skipped one migration and ran another, with a record of a
\* version outside its list in the store
C10_Witness ==
  /\ Ended
  /\ writes # <<>>
  /\ \E r \in 1..Len(reads) : reads[r].status = Successful /\ reads[r].pos \notin Positions(invoked)
  /\ \E d \in store0 : \A i \in 1..Len(migrations) : migrations[i].version # d.data.version

\* runMigrations was entered in this call
RunEntered == pc \in {"read", "fn", "write", "done"} /\ failure \in {"none", "MigrationFailed"}

\* every version of the list had a successful record when the call started
AllSucceededBefore ==
  \A i \in 1..Len(migrations) : StatusOf(store0, migrations[i].version) = Successful

(***************************************************************************)
(* C11  Repeated invocation is idempotent.  A call with dryRun=false that  *)
(* ended normally with no procedure rejected leaves a successful record    *)
(* for every version of its list; and a call with ignoreRemote=false whose *)
(* listed versions all had a successful record when it started reads every *)
(* one of them, invokes no procedure, writes nothing, leaves the store as  *)
(* it was and ends normally: so the store it leaves starts the next such   *)
(* call in the same situation.                                             *)
(***************************************************************************)
C11_Idempotent ==
  /\ (RunEntered /\ Ended /\ outcome = "ok" /\ ~defaults.dryRun
        /\ \A w \in 1..Len(writes) : writes[w].data.status = Successful) =>
       \A i \in 1..Len(migrations) : StatusOf(store, migrations[i].version) = Successful
  /\ (RunEntered /\ ~defaults.ignoreRemote /\ AllSucceededBefore) =>
       /\ invoked = <<>> /\ writes = <<>> /\ store = store0
       /\ Ended => outcome = "ok" /\ Len(reads) = Len(migrations)

\* a second call over three migrations the first call ran successfully
C11_Witness ==
  /\ calls = 2
  /\ Ended
  /\ ~defaults.ignoreRemote /\ ~defaults.dryRun /\ ~single.given
  /\ Len(migrations) = 3
  /\ AllSucceededBefore
  /\ Len(reads) = 3

\* the procedures invoked in this call that have not settled
InFlight == Len(invoked) - Len(writes) - (IF pc = "write" THEN 1 ELSE 0)

(***************************************************************************)
(* C12  Strictly sequential execution.  At most one procedure of a call is *)
(* in flight, and exactly while the loop awaits it; while the remote read  *)
(* of a position is outstanding, every procedure invoked in the call was   *)
(* invoked at an earlier position, has settled, and has had its result     *)
(* record written.                                                         *)
(***************************************************************************)
C12_Sequential ==
  /\ InFlight \in {0, 1}
  /\ InFlight = 1 <=> pc = "fn"
  /\ pc = "read" =>
       /\ Len(writes) = Len(invoked)
       /\ \A i \in 1..Len(invoked) :
            invoked[i].pos < idx /\ writes[i].pos = invoked[i].pos

\* the read of the third migration is outstanding after two procedures ran
C12_Witness ==
  /\ pc = "read"
  /\ idx = 3
  /\ Len(invoked) = 2
  /\ Len(writes) = 2

(***************************************************************************)
(* C13  At most one invocation per run.  No version's procedure is invoked *)
(* twice in one call, for every combination of options.                    *)
(***************************************************************************)
C13_AtMostOnce ==
  \A i, j \in 1..Len(invoked) : invoked[i].version = invoked[j].version => i = j

(***************************************************************************)
(* C14  Retry only by a later invocation.  A version whose procedure       *)
(* rejected at a position of a call is invoked at no later position of     *)
(* that call; and a version read with a failed record, or with none, in a  *)
(* call with dryRun=false is invoked in that call, whatever ignoreRemote.  *)
(***************************************************************************)
C14_RetryByLaterCall ==
  /\ \A w \in 1..Len(writes) :
       writes[w].data.status = Failed =>
         \A i \in 1..Len(invoked) :
           invoked[i].version = writes[w].data.version => invoked[i].pos <= writes[w].pos
  /\ \A r \in 1..Len(reads) :
       (reads[r].status \in {Failed, "absent"} /\ ~defaults.dryRun) =>
         reads[r].pos \in Positions(invoked)

\* the second call, not forced, found a failed record and ran the migration
\* again, this time successfully
C14_Witness ==
  /\ calls = 2
  /\ ~defaults.ignoreRemote
  /\ \E r \in 1..Len(reads) :
       /\ reads[r].status = Failed
       /\ reads[r].pos \in Positions(invoked)
       /\ StatusOf(store, reads[r].version) = Successful

(***************************************************************************)
(* C15  Option defaults hold per invocation.  In every call of migrate the *)
(* options in force are the documented defaults overridden by the options  *)
(* of that call only, whatever earlier calls in the same process passed.   *)
(***************************************************************************)
C15_DefaultsPerCall ==
  [][\A o \in CallOptions(variant), s \in CallSingles(variant) :
       Migrate(o, s) => defaults' = Assign(InitialDefaults, o)]_vars

\* the files of the directory whose own name holds the delimiter
OwnDelimiter(n) == Includes(Chars(n), Chars(defaults.delimiter))

(***************************************************************************)
(* C16  Files without the delimiter are ignored.  In every call, for every *)
(* directory path, the files gather loads (and so the files that can give  *)
(* a descriptor or make discovery fail) are exactly the files of the       *)
(* directory whose own name holds the delimiter.                           *)
(***************************************************************************)
C16_HelpersIgnored ==
  pc # "idle" => [i \in 1..Len(loads) |-> loads[i].file] = SelectSeq(fsys, OwnDelimiter)

\* the r-th read of the call found a migration the run skips
Skippable(r) == ~defaults.ignoreRemote /\ reads[r].status = Successful

(***************************************************************************)
(* C17  Dry run stops at the first pending migration.  In a call with      *)
(* dryRun=true the list is read in order, one read per position; a read    *)
(* that finds a skippable migration (a successful record, not forced) is   *)
(* followed by no invocation of it; the first read that finds a            *)
(* non-skippable one is the last read of the call, which then has ended    *)
(* normally with no procedure invoked.                                     *)
(***************************************************************************)
C17_DryRunStopsAtFirstPending ==
  (defaults.dryRun /\ RunEntered) =>
    \A r \in 1..Len(reads) :
      /\ reads[r].pos = r
      /\ IF Skippable(r)
         THEN r \notin Positions(invoked)
         ELSE r = Len(reads) /\ pc = "done" /\ outcome = "ok" /\ invoked = <<>>

\* a dry run skipped the first migration and stopped at the second, which is
\* pending, though the third has a successful record
C17_Witness ==
  /\ defaults.dryRun
  /\ Ended
  /\ Len(migrations) = 3
  /\ Len(reads) = 2
  /\ Skippable(1)
  /\ ~Skippable(2)
  /\ StatusOf(store, migrations[3].version) = Successful

\* a file of the directory has an unparseable version token or exports no
\* migration function
BadFile ==
  \E i \in 1..Len(fsys) : Normalized(fsys[i]) = NoVersion \/ fsys[i] \in NoMigrationExport

\* a token of the selection cannot be parsed as a version
BadToken ==
  single.given /\ \E i \in 1..Len(single.tokens) : TokenVersion(single.tokens[i]) = NoVersion

(***************************************************************************)
(* C18  Validation errors are global.  In a call whose directory holds a   *)
(* file with an unparseable version, two files of one version or a file    *)
(* without a migration function, or whose selection holds an unparseable   *)
(* token, runMigrations is never entered: no record is read or written, no *)
(* procedure is invoked, and when the call has ended it ended in an error. *)
(***************************************************************************)
C18_ValidationGlobal ==
  (pc # "idle" /\ (BadFile \/ HasDuplicate \/ BadToken)) =>
    /\ pc \in {"gather", "done"}
    /\ reads = <<>> /\ invoked = <<>> /\ writes = <<>> /\ store = store0
    /\ Ended => EndedInError

\* one file without a migration function beside two loaded migrations, one
\* of them pending
C18_Witness ==
  /\ Ended
  /\ failure = "MissingProcedure"
  /\ Len(loads) = 3
  /\ \E i, j \in 1..Len(loads) :
       /\ i # j
       /\ loads[i].state = "fulfilled"
       /\ loads[j].state = "fulfilled"
       /\ StatusOf(store, loads[i].version) = "absent"

(***************************************************************************)
(* C19  Exactly-once under overlapping runs.  When two runs with           *)
(* ignoreRemote=false and dryRun=false over the same directory interleave  *)
(* against one store, no version is invoked by both.                       *)
(***************************************************************************)
C19_ExactlyOnce ==
  \A i \in 1..Len(invoked), j \in 1..Len(peer.invoked) :
    invoked[i].version # peer.invoked[j].version

\* a remote read or write of this call failed
StoreFailed == failure = "StoreError"

(***************************************************************************)
(* C20  A failed store operation halts the run.  Once the remote read or   *)
(* the write of the result of position idx has failed, the call has ended, *)
(* in an error, and no position after idx was read, invoked or written;    *)
(* also when the procedure of position idx had completed successfully.     *)
(***************************************************************************)
C20_StoreFailureHalts ==
  StoreFailed =>
    /\ Ended
    /\ EndedInError
    /\ \A i \in (idx + 1)..Len(migrations) :
         i \notin Positions(reads) \cup Positions(invoked) \cup Positions(writes)

\* the first of three procedures completed successfully and the write of its
\* result failed
C20_Witness ==
  /\ StoreFailed
  /\ Len(migrations) = 3
  /\ idx = 1
  /\ Len(invoked) = 1
  /\ writes = <<>>
  /\ result.status = Successful

====
